---- MODULE Spec2Model ----
(***************************************************************************)
(* Text-to-SQL pipeline (db_utils.py, agent.py): the SQL helpers           *)
(* (clean_code_fences, ensure_aliases), the validator and the executor on  *)
(* a SQLite connection, the three pipeline nodes and DatabaseChatBot.chat. *)
(*                                                                         *)
(* SQL text is a sequence of tokens.  A token is a string: a whitespace    *)
(* token, a word (keyword, function name, identifier, number) or a piece   *)
(* of punctuation.  The regular expressions, split(";"), strip() and       *)
(* startswith() of the source are computed on tokens; every literal the    *)
(* source looks for (select, from, AS, COUNT, ";", the fences) is one      *)
(* token of the alphabet, so the token computation agrees with the         *)
(* character computation on the concatenated text.                         *)
(***************************************************************************)
EXTENDS Integers, Sequences, FiniteSets, TLC

\* ------------------------------------------------------------------ bounds
MaxStmts == 2
MaxTurns == 1
MaxSelLen == 4

\* ------------------------------------------------------------- text helpers
WS == " "
NL_WS == "\n"
SEMI == ";"
\* the code-fence markers (three backquotes, with and without the sql tag)
FENCE == "'''"
FENCE_SQL == "'''sql"

\* tokens made of word characters only (\w+)
WordTokens ==
    {"SELECT", "select", "FROM", "from", "AS", "as", "COUNT", "count", "SUM",
     "total", "AVG", "average", "MIN", "min", "MAX", "max", "DELETE", "INSERT",
     "INTO", "VALUES", "DROP", "CREATE", "TABLE", "t", "n", "id", "1", "x",
     "error", "rows_affected"}

\* str.upper() on one token
Upper(tok) ==
    CASE tok = "select" -> "SELECT"
      [] tok = "from" -> "FROM"
      [] tok = "as" -> "AS"
      [] tok = "count" -> "COUNT"
      [] tok = "min" -> "MIN"
      [] tok = "max" -> "MAX"
      [] OTHER -> tok

IsSpace(tok) == tok \in {WS, NL_WS}

\* \w : the token starts with a word character
StartsWithWordChar(tok) == tok \in WordTokens

RECURSIVE LStrip(_)
LStrip(s) == IF s # <<>> /\ IsSpace(Head(s)) THEN LStrip(Tail(s)) ELSE s

RECURSIVE RStrip(_)
RStrip(s) ==
    IF s # <<>> /\ IsSpace(s[Len(s)]) THEN RStrip(SubSeq(s, 1, Len(s) - 1)) ELSE s

\* str.strip()
Strip(s) == RStrip(LStrip(s))

\* str.split(sep): the pieces between the occurrences of the token sep
RECURSIVE SplitOn(_, _, _)
SplitOn(s, sep, cur) ==
    IF s = <<>> THEN <<cur>>
    ELSE IF Head(s) = sep THEN <<cur>> \o SplitOn(Tail(s), sep, <<>>)
    ELSE SplitOn(Tail(s), sep, Append(cur, Head(s)))

Split(s, sep) == SplitOn(s, sep, <<>>)

\* [s.strip() for s in sql_query.strip().split(";") if s.strip()]
SplitStatements(sql_query) ==
    LET parts == Split(Strip(sql_query), SEMI)
        stripped == [i \in 1..Len(parts) |-> Strip(parts[i])]
    IN  SelectSeq(stripped, LAMBDA p: p # <<>>)

\* stmt.lstrip().upper().startswith("SELECT")
StartsWithSelect(stmt) ==
    LET l == LStrip(stmt) IN l # <<>> /\ Upper(Head(l)) = "SELECT"

\* str(n) for the small numbers of the model
ToStr(n) ==
    CASE n = 0 -> "0" [] n = 1 -> "1" [] n = 2 -> "2" [] n = 3 -> "3"
      [] n = 4 -> "4" [] OTHER -> "many"

\* ------------------------------------------------- the SQLite engine (sqlite3)
\* The database file holds one table, t(id INTEGER PRIMARY KEY); the seed
\* data of setup_sample_database gives it the row 1.
Ids == {1}
SeedDb == [exists |-> TRUE, rows |-> {1}]
DbStates == {[exists |-> FALSE, rows |-> {}]} \cup [exists : {TRUE}, rows : SUBSET Ids]

Keywords ==
    {"SELECT", "FROM", "AS", "DELETE", "INSERT", "INTO", "VALUES", "DROP",
     "CREATE", "TABLE"}
QuotedIdents == {"\"n\""}
IsIdent(tok) == (tok \in WordTokens /\ Upper(tok) \notin Keywords) \/ tok \in QuotedIdents
Unquote(tok) == IF tok = "\"n\"" THEN "n" ELSE tok

\* the tokens of a statement that are not whitespace
NonWs(stmt) == SelectSeq(stmt, LAMBDA tok: ~IsSpace(tok))

\* the tokens as the engine's parser reads them: keywords fold case
Folded(raw) == [i \in 1..Len(raw) |-> Upper(raw[i])]

\* What the engine's parser makes of one statement: its kind and, for a
\* SELECT of one expression, the name of the result column.
Parse(stmt) ==
    LET Count(p) == Len(p) >= 7 /\ SubSeq(p, 1, 5) = <<"SELECT", "COUNT", "(", "*", ")">>
        Read(raw, p, n, isCount) ==
            CASE p = <<"SELECT", "*", "FROM", "t">> -> [kind |-> "select_all", col |-> "id"]
              [] n = 7 /\ isCount /\ p[6] = "FROM" /\ p[7] = "t" ->
                    [kind |-> "select_count",
                     col |-> IF raw[2] = "count" THEN "count(*)" ELSE "COUNT(*)"]
              [] n = 8 /\ isCount /\ IsIdent(raw[6]) /\ p[7] = "FROM" /\ p[8] = "t" ->
                    [kind |-> "select_count", col |-> Unquote(raw[6])]
              [] n = 9 /\ isCount /\ p[6] = "AS" /\ IsIdent(raw[7]) /\ p[8] = "FROM"
                    /\ p[9] = "t" ->
                    [kind |-> "select_count", col |-> Unquote(raw[7])]
              [] p = <<"DELETE", "FROM", "t">> -> [kind |-> "delete", col |-> ""]
              [] p = <<"INSERT", "INTO", "t", "VALUES", "(", "1", ")">> ->
                    [kind |-> "insert", col |-> ""]
              [] p = <<"DROP", "TABLE", "t">> -> [kind |-> "drop", col |-> ""]
              [] p = <<"CREATE", "TABLE", "t", "(", "id", "INTEGER PRIMARY KEY", ")">> ->
                    [kind |-> "create", col |-> ""]
              [] OTHER -> [kind |-> "syntax_error", col |-> ""]
        Tokens(raw, p) == Read(raw, p, Len(p), Count(p))
        Raw(raw) == Tokens(raw, Folded(raw))
    IN  Raw(NonWs(stmt))

\* sqlite3 opens a transaction implicitly before INSERT/UPDATE/DELETE/REPLACE only
IsDml(kind) == kind \in {"delete", "insert"}

NoError == ""
\* sqlite3_prepare: the error the engine raises while compiling the statement
PrepareError(kind, w) ==
    CASE kind = "syntax_error" -> "syntax error"
      [] kind = "create" -> IF w.exists THEN "table t already exists" ELSE NoError
      [] OTHER -> IF w.exists THEN NoError ELSE "no such table: t"

\* sqlite3_step: the error the engine raises while running the statement
StepError(kind, w) ==
    IF kind = "insert" /\ 1 \in w.rows THEN "UNIQUE constraint failed: t.id" ELSE NoError

\* the table after the statement has run
StepDb(kind, w) ==
    CASE kind = "delete" -> [w EXCEPT !.rows = {}]
      [] kind = "insert" -> [w EXCEPT !.rows = @ \cup {1}]
      [] kind = "drop" -> [exists |-> FALSE, rows |-> {}]
      [] kind = "create" -> [exists |-> TRUE, rows |-> {}]
      [] OTHER -> w

\* cursor.rowcount: the rows a DML statement changed, -1 for anything else
StepRowcount(kind, w) ==
    CASE kind = "delete" -> Cardinality(w.rows)
      [] kind = "insert" -> 1
      [] OTHER -> -1

\* cursor.description and cursor.fetchall() zipped: one mapping per row
RECURSIVE RowsOf(_, _)
RowsOf(col, ids) ==
    IF ids = {} THEN <<>>
    ELSE LET k == CHOOSE x \in ids : \A y \in ids : x <= y
         IN  <<(col :> ToStr(k))>> \o RowsOf(col, ids \ {k})

FetchAll(p, w) ==
    CASE p.kind = "select_all" -> RowsOf(p.col, w.rows)
      [] p.kind = "select_count" -> <<(p.col :> ToStr(Cardinality(w.rows)))>>
      [] OTHER -> <<>>

\* sqlite3.connect(_db_path())
Connect(committed) ==
    [open |-> TRUE, work |-> committed, in_txn |-> FALSE, last_insert_rowid |-> 0]

\* cursor.execute(stmt) on connection c with the committed database d.
\* Returns the connection, the committed database, the error raised
\* (NoError when none), the rows and the cursor's rowcount and lastrowid.
\* The statement is compiled first; a DML statement then opens a
\* transaction if none is open; anything else that runs outside a
\* transaction is committed at once.
CursorExecute(stmt, c, d) ==
    LET Raise(conn_, e) ==
            [conn |-> conn_, db |-> d, error |-> e, rows |-> <<>>,
             rowcount |-> -1, lastrowid |-> c.last_insert_rowid]
        Done(p, after) ==
            [conn |-> after,
             db |-> IF after.in_txn THEN d ELSE after.work,
             error |-> NoError,
             rows |-> FetchAll(p, c.work),
             rowcount |-> StepRowcount(p.kind, c.work),
             lastrowid |-> after.last_insert_rowid]
        Step(p, began, serr) ==
            IF serr # NoError THEN Raise(began, serr)
            ELSE Done(p, [began EXCEPT !.work = StepDb(p.kind, c.work),
                                       !.last_insert_rowid =
                                           IF p.kind = "insert" THEN 1 ELSE @])
        Prepared(p, perr) ==
            IF perr # NoError THEN Raise(c, perr)
            ELSE Step(p, IF IsDml(p.kind) THEN [c EXCEPT !.in_txn = TRUE] ELSE c,
                      StepError(p.kind, c.work))
        Parsed(p) == Prepared(p, PrepareError(p.kind, c.work))
    IN  Parsed(Parse(stmt))

\* cursor.execute("EXPLAIN QUERY PLAN " + stmt): compiles, runs nothing
ExplainQueryPlan(stmt, c) ==
    LET Parsed(p) ==
            IF p.kind \in {"select_all", "select_count"}
            THEN PrepareError(p.kind, c.work)
            ELSE "syntax error"
    IN  Parsed(Parse(stmt))

\* conn.commit()
Commit(c, d) == [conn |-> [c EXCEPT !.in_txn = FALSE], db |-> c.work]

\* conn.rollback()
Rollback(c, d) == [conn |-> [c EXCEPT !.in_txn = FALSE, !.work = d], db |-> d]

\* conn.close(): a pending transaction is rolled back
Close(c, d) == [c EXCEPT !.open = FALSE, !.in_txn = FALSE, !.work = d]

\* ------------------------------------------------------------ SQL helpers
AGG_FUNCS == <<"COUNT", "SUM", "AVG", "MIN", "MAX">>

\* the first index >= i of s that holds no whitespace token (Len(s)+1 if none)
RECURSIVE SkipSpace(_, _)
SkipSpace(s, i) == IF i <= Len(s) /\ IsSpace(s[i]) THEN SkipSpace(s, i + 1) ELSE i

\* \s+from\s+ matches at index e of s
FromAt(s, e) ==
    LET At(j) == j + 1 <= Len(s) /\ Upper(s[j]) = "FROM" /\ IsSpace(s[j + 1])
    IN  e <= Len(s) /\ IsSpace(s[e]) /\ At(SkipSpace(s, e))

\* the least member of a set of numbers that is not empty
Least(S) == CHOOSE x \in S : \A y \in S : x <= y

\* re.match(r"(?is)\s*select\s+(.*?)\s+from\s+", sql): the span <<g, e>> of
\* group 1 (tokens g..e-1), <<0, 0>> when there is no match or group 1 is
\* empty.  \s+ after select is greedy, so group 1 starts at the first token
\* that is not whitespace; .*? is lazy, so it ends at the first \s+from\s+.
SelectPartSpan(sql) ==
    LET Ends(g) == {e \in g..Len(sql) : FromAt(sql, e)}
        Span(g, ends) == IF ends # {} THEN <<g, Least(ends)>> ELSE <<0, 0>>
        Group(g) == Span(g, Ends(g))
        After(i0) ==
            IF i0 + 1 <= Len(sql) /\ Upper(sql[i0]) = "SELECT" /\ IsSpace(sql[i0 + 1])
            THEN Group(SkipSpace(sql, i0 + 1))
            ELSE <<0, 0>>
    IN  After(SkipSpace(sql, 1))

\* func\s*\(\s*[^)]+\s*\) matched at the head of text: the length of the
\* match, 0 when there is none
CallLen(text, func) ==
    LET Closing(k, closes) == IF closes # {} /\ Least(closes) >= k + 2 THEN Least(closes) ELSE 0
        Open(k) ==
            IF k <= Len(text) /\ text[k] = "("
            THEN Closing(k, {q \in (k + 1)..Len(text) : text[q] = ")"})
            ELSE 0
    IN  IF text # <<>> /\ Upper(text[1]) = func THEN Open(SkipSpace(text, 2)) ELSE 0

\* the lookahead \s+AS\s+\w matches at the head of rest
AliasFollows(rest) ==
    LET Word(a, b) == b > a + 1 /\ b <= Len(rest) /\ StartsWithWordChar(rest[b])
        As(a) == /\ a > 1 /\ a <= Len(rest) /\ Upper(rest[a]) = "AS"
                 /\ Word(a, SkipSpace(rest, a + 1))
    IN  As(SkipSpace(rest, 1))

\* patch(): re.sub over every call of func that no alias follows
RECURSIVE patch(_, _, _)
patch(select_text, func, alias) ==
    LET Sub(l, rest) ==
            IF l > 0 /\ ~AliasFollows(rest)
            THEN SubSeq(select_text, 1, l) \o <<WS, "AS", WS, alias>>
                 \o patch(rest, func, alias)
            ELSE <<Head(select_text)>> \o patch(Tail(select_text), func, alias)
        At(l) == Sub(l, SubSeq(select_text, l + 1, Len(select_text)))
    IN  IF select_text = <<>> THEN <<>> ELSE At(CallLen(select_text, func))

\* str.replace(old, new, 1): the first occurrence of old in s replaced
ReplaceFirst(s, old, new) ==
    LET At(i0) == SubSeq(s, 1, i0 - 1) \o new \o SubSeq(s, i0 + Len(old), Len(s))
        In(hits) == IF hits = {} THEN s ELSE At(Least(hits))
    IN  In({i \in 1..(Len(s) - Len(old) + 1) : SubSeq(s, i, i + Len(old) - 1) = old})

ensure_aliases(sql) ==
    LET Patched(select_part) ==
            patch(patch(patch(patch(patch(select_part, "COUNT", "count"),
                  "SUM", "total"), "AVG", "average"), "MIN", "min"), "MAX", "max")
        Result(select_part, patched) ==
            IF patched = select_part THEN sql ELSE ReplaceFirst(sql, select_part, patched)
        Part(select_part) == Result(select_part, Patched(select_part))
        Match(span) ==
            IF span = <<0, 0>> THEN sql ELSE Part(SubSeq(sql, span[1], span[2] - 1))
    IN  Match(SelectPartSpan(sql))

\* the tokens of s before the first token sep
RECURSIVE Before(_, _)
Before(s, sep) ==
    IF s = <<>> \/ Head(s) = sep THEN <<>> ELSE <<Head(s)>> \o Before(Tail(s), sep)

clean_code_fences(text) ==
    IF \E i \in 1..Len(text) : text[i] = FENCE_SQL
    THEN Strip(Before(Split(text, FENCE_SQL)[2], FENCE))
    ELSE IF \E i \in 1..Len(text) : text[i] = FENCE
    THEN Strip(Split(text, FENCE)[2])
    ELSE Strip(text)

\* ---------------------------------------------------------- pretty printing
NL == NL_WS
TABLE_MAX_ROWS == 1000
DETAILS_MAX_ROWS == 100

Min(a, b) == IF a <= b THEN a ELSE b

\* the keys of one row mapping, as a list
RECURSIVE KeysOf(_)
KeysOf(keys) ==
    IF keys = {} THEN <<>>
    ELSE LET k == CHOOSE x \in keys : TRUE IN <<k>> \o KeysOf(keys \ {k})

\* cols: the keys of the rows in order of first appearance
RECURSIVE ColsOf(_, _)
ColsOf(rows, cols) ==
    LET New(keys) == SelectSeq(keys, LAMBDA k: \A i \in 1..Len(cols) : cols[i] # k)
    IN  IF rows = <<>> THEN cols
        ELSE ColsOf(Tail(rows), cols \o New(KeysOf(DOMAIN Head(rows))))

\* " | ".join(cells)
RECURSIVE JoinCells(_)
JoinCells(cells) ==
    IF cells = <<>> THEN <<>>
    ELSE IF Len(cells) = 1 THEN Head(cells)
    ELSE Head(cells) \o <<" | ">> \o JoinCells(Tail(cells))

\* "| " + " | ".join(cells) + " |"
TableLine(cells) == <<"| ">> \o JoinCells(cells) \o <<" |">>

\* _Note: showing first max_rows of len(rows) rows._
TruncationNote(n, max_rows) ==
    IF n > max_rows
    THEN <<NL, NL, "_Note: showing first ", ToStr(max_rows), " of ", ToStr(n), " rows._">>
    ELSE <<>>

\* the body lines of the table, one per row
RECURSIVE BodyLines(_, _)
BodyLines(rows, cols) ==
    IF rows = <<>> THEN <<>>
    ELSE <<NL>>
         \o TableLine([i \in 1..Len(cols) |->
                IF cols[i] \in DOMAIN Head(rows) THEN Head(rows)[cols[i]] ELSE <<>>])
         \o BodyLines(Tail(rows), cols)

as_markdown_table(rows, max_rows) ==
    LET Table(cols) ==
            TableLine([i \in 1..Len(cols) |-> <<cols[i]>>]) \o <<NL>>
            \o TableLine([i \in 1..Len(cols) |-> <<"---">>])
            \o BodyLines(SubSeq(rows, 1, Min(Len(rows), max_rows)), cols)
            \o TruncationNote(Len(rows), max_rows)
    IN  IF rows = <<>> THEN <<"_No rows._">> ELSE Table(ColsOf(rows, <<>>))

RECURSIVE DetailItems(_, _)
DetailItems(row, keys) ==
    IF keys = <<>> THEN <<>>
    ELSE <<NL, "- **", Head(keys), "**: ">> \o row[Head(keys)]
         \o DetailItems(row, Tail(keys))

RECURSIVE DetailRows(_, _)
DetailRows(rows, i) ==
    IF rows = <<>> THEN <<>>
    ELSE <<NL, NL, "**Row ", ToStr(i), "**">>
         \o DetailItems(Head(rows), KeysOf(DOMAIN Head(rows)))
         \o DetailRows(Tail(rows), i + 1)

as_row_details(rows, max_rows) ==
    IF rows = <<>> THEN <<>>
    ELSE <<"**Row details:**">>
         \o DetailRows(SubSeq(rows, 1, Min(Len(rows), max_rows)), 1)
         \o TruncationNote(Len(rows), max_rows)

\* ------------------------------------------------------- inputs of the model
\* what the user types: nothing, or a question
UserInputs == {"", "question"}

SelectAll == <<"SELECT", WS, "*", WS, "FROM", WS, "t">>
SelectCount == <<"SELECT", WS, "COUNT", "(", "*", ")", WS, "FROM", WS, "t">>
DeleteAll == <<"DELETE", WS, "FROM", WS, "t">>
InsertOne == <<"INSERT", WS, "INTO", WS, "t", WS, "VALUES", WS, "(", "1", ")">>
DropTable == <<"DROP", WS, "TABLE", WS, "t">>
CreateTable ==
    <<"CREATE", WS, "TABLE", WS, "t", WS, "(", "id", WS, "INTEGER PRIMARY KEY", ")">>

\* a count under the column name a
SelectCountAs(a) ==
    <<"SELECT", WS, "COUNT", "(", "*", ")", WS, "AS", WS, a, WS, "FROM", WS, "t">>
\* a completion that is not SQL: the call is followed by a second pair of
\* parentheses
SelectMalformed == <<"SELECT", WS, "COUNT", "(", "*", ")", "(", "x", ")", WS, "FROM", WS, "t">>

\* the statements the LLM combines freely
StmtForms == {SelectCount, DeleteAll, InsertOne, DropTable, CreateTable}

\* "stmt; stmt; ... stmt;"
RECURSIVE StmtLists(_)
StmtLists(n) ==
    IF n = 0 THEN {<<>>}
    ELSE LET Longer(shorter) ==
                 shorter \cup {Append(l, f) : l \in {x \in shorter : Len(x) = n - 1},
                                                f \in StmtForms}
         IN  Longer(StmtLists(n - 1))

RECURSIVE JoinStmts(_)
JoinStmts(l) ==
    IF l = <<>> THEN <<>>
    ELSE IF Len(l) = 1 THEN Head(l) \o <<SEMI>>
    ELSE Head(l) \o <<SEMI, WS>> \o JoinStmts(Tail(l))

\* the completions of the LLM: every sequence of at most MaxStmts statements,
\* some completions inside a code fence, the example of the prompt
\* (delete, then show), and the degenerate completions
Completions ==
    {JoinStmts(l) : l \in StmtLists(MaxStmts)}
    \cup {JoinStmts(<<SelectAll>>), JoinStmts(<<DeleteAll, SelectAll>>),
          JoinStmts(<<SelectAll, SelectCount>>)}
    \cup {<<FENCE_SQL, NL_WS>> \o f \o <<SEMI, NL_WS, FENCE>> : f \in {SelectCount, DeleteAll}}
    \cup {<<WS>>, <<SEMI>>, <<FENCE, WS, FENCE>>}
    \cup {JoinStmts(<<SelectCountAs(a)>>) : a \in {"error", "rows_affected"}}
    \cup {JoinStmts(<<SelectMalformed>>)}

\* the texts ensure_aliases is tried on by itself: SELECT, one aggregate
\* call, at most MaxSelLen more tokens, FROM t
AliasCalls ==
    {<<"COUNT", "(", "*", ")">>, <<"count", "(", "*", ")">>, <<"MIN", "(", "x", ")">>}
AliasTokens == {WS, "AS", "n", "\"n\"", "(", ")", "x"}

RECURSIVE TokenSeqs(_)
TokenSeqs(n) ==
    IF n = 0 THEN {<<>>}
    ELSE LET Longer(shorter) ==
                 shorter \cup {Append(l, tok) : l \in {x \in shorter : Len(x) = n - 1},
                                                tok \in AliasTokens}
         IN  Longer(TokenSeqs(n - 1))

AliasInput(call, more) == <<"SELECT", WS>> \o call \o more \o <<WS, "FROM", WS, "t">>
AliasInputs == {AliasInput(call, more) : call \in AliasCalls, more \in TokenSeqs(MaxSelLen)}

\* ------------------------------------------------------------------- state
VARIABLES
    db,            \* the committed contents of the database file
    conn,          \* the sqlite3 connection of the running (or last) tool call
    pc,            \* where the pipeline run is
    state,         \* the ChatBotState passed from node to node
    chat_history,  \* DatabaseChatBot.chat_history
    chat_ret,      \* what the last chat call gave its caller
    sql,           \* query_executor_node: its local sql_query
    valid,         \* query_executor_node: the last result of validate_sql_query
    attempt,       \* query_executor_node: how many times it has validated
    fn,            \* the running tool call: its statements, position and locals
    calls,         \* the tool calls of this run, in order, each with its outcome
    obs,           \* what the running tool call has seen (for the properties)
    passes,        \* ensure_aliases by itself: the text, then each pass over it
    ui             \* the Streamlit page: where its handler is, last_sql, last_rows

vars ==
    <<db, conn, pc, state, chat_history, chat_ret, sql, valid, attempt, fn, calls, obs,
      passes, ui>>

NoConn == [open |-> FALSE, work |-> SeedDb, in_txn |-> FALSE, last_insert_rowid |-> 0]
NoState == [user_query |-> "", sql_query |-> <<>>, query_result |-> <<>>,
            final_response |-> <<>>]
NoValid == [valid |-> FALSE, error |-> <<>>]
NoFn == [name |-> "", statements |-> <<>>, idx |-> 0, total_rows_affected |-> 0,
         last_row_id |-> "None", select_result |-> <<>>, result |-> <<>>]
NoObs == [db0 |-> SeedDb, rejected |-> {}, applied |-> <<>>]
NoRet == [kind |-> "none", reply |-> <<>>]
NoUi == [phase |-> "idle", last_sql |-> <<>>, last_rows |-> <<>>]

Init ==
    /\ db = SeedDb
    /\ conn = NoConn
    /\ pc = "idle"
    /\ state = NoState
    /\ chat_history = <<>>
    /\ chat_ret = NoRet
    /\ sql = <<>>
    /\ valid = NoValid
    /\ attempt = 0
    /\ fn = NoFn
    /\ calls = <<>>
    /\ obs = NoObs
    /\ passes = <<>>
    /\ ui = NoUi

\* ------------------------------------------------------------ DatabaseChatBot
\* chat(user_input): builds the initial state and starts the graph
Chat(user_input) ==
    /\ UNCHANGED <<passes, ui>>
    /\ pc = "idle"
    /\ ui.phase = "idle"
    /\ Len(chat_history) < MaxTurns
    /\ state' = [user_query |-> user_input, sql_query |-> <<>>,
                 query_result |-> <<>>, final_response |-> <<>>]
    /\ pc' = "query_analyzer"
    /\ chat_ret' = NoRet
    /\ sql' = <<>>
    /\ valid' = NoValid
    /\ attempt' = 0
    /\ fn' = NoFn
    /\ calls' = <<>>
    /\ obs' = NoObs
    /\ UNCHANGED <<db, conn, chat_history>>

PLEASE_PROVIDE == "Please provide a question in the user_query field."

\* query_analyzer_node, no question: the static message
AnalyzerNoQuestion ==
    /\ UNCHANGED <<passes, ui>>
    /\ pc = "query_analyzer"
    /\ state.user_query = ""
    /\ state' = [state EXCEPT !.sql_query = <<>>, !.query_result = <<>>,
                              !.final_response = <<PLEASE_PROVIDE>>]
    /\ pc' = "query_executor"
    /\ UNCHANGED <<db, conn, chat_history, chat_ret, sql, valid, attempt, fn, calls, obs>>

\* query_analyzer_node: get_database_schema.invoke or llm.invoke raises; the
\* node catches nothing, so the exception leaves graph.invoke and chat
AnalyzerRaises ==
    /\ UNCHANGED <<passes, ui>>
    /\ pc = "query_analyzer"
    /\ state.user_query # ""
    /\ pc' = "raised"
    /\ UNCHANGED <<db, conn, state, chat_history, chat_ret, sql, valid, attempt, fn,
                   calls, obs>>

\* query_analyzer_node: the LLM answers with the text raw
AnalyzerCompletes(raw) ==
    /\ UNCHANGED <<passes, ui>>
    /\ pc = "query_analyzer"
    /\ state.user_query # ""
    /\ state' = [state EXCEPT !.sql_query = ensure_aliases(clean_code_fences(raw)),
                              !.query_result = <<>>, !.final_response = <<>>]
    /\ pc' = "query_executor"
    /\ UNCHANGED <<db, conn, chat_history, chat_ret, sql, valid, attempt, fn, calls, obs>>

\* the exception reaches the caller of chat: no reply, no turn appended
ChatRaises ==
    /\ UNCHANGED <<passes, ui>>
    /\ pc = "raised"
    /\ pc' = "idle"
    /\ chat_ret' = [kind |-> "exception", reply |-> <<>>]
    /\ UNCHANGED <<db, conn, state, chat_history, sql, valid, attempt, fn, calls, obs>>

ErrorRow(text) == <<[error |-> text]>>

\* the check of the empty string left out
NoSqlProvidedNever(sql_query) == FALSE

\* query_executor_node: "if not sql_query"
NoSqlProvided(sql_query) == sql_query = <<>>

\* query_executor_node, up to its first call of validate_sql_query
ExecutorEnter ==
    /\ UNCHANGED <<passes, ui>>
    /\ pc = "query_executor"
    /\ LET sql_query == Strip(state.sql_query)
       IN  IF NoSqlProvided(sql_query)
           THEN /\ state' = [state EXCEPT !.query_result = ErrorRow(<<"No SQL query provided">>),
                                          !.final_response = <<>>]
                /\ pc' = "response_generator"
                /\ UNCHANGED <<sql, attempt>>
           ELSE /\ sql' = sql_query
                /\ attempt' = 1
                /\ pc' = "validate"
                /\ UNCHANGED state
    /\ UNCHANGED <<db, conn, chat_history, chat_ret, valid, fn, calls, obs>>

Call(name, arg, ok) == [fn |-> name, sql |-> arg, ok |-> ok]

\* validate_sql_query: connect, split; no statement at all is rejected
ValidateBegin ==
    /\ UNCHANGED <<passes, ui>>
    /\ pc = "validate"
    /\ conn' = Connect(db)
    /\ obs' = [db0 |-> db, rejected |-> {}, applied |-> <<>>]
    /\ LET statements == SplitStatements(sql)
       IN  IF statements = <<>>
           THEN /\ valid' = [valid |-> FALSE, error |-> <<"Empty SQL">>]
                /\ calls' = Append(calls, Call("validate_sql_query", sql, FALSE))
                /\ pc' = "validated"
                /\ UNCHANGED fn
           ELSE /\ fn' = [NoFn EXCEPT !.name = "validate_sql_query",
                                      !.statements = statements, !.idx = 1]
                /\ pc' = "validate_loop"
                /\ UNCHANGED <<valid, calls>>
    /\ UNCHANGED <<db, state, chat_history, chat_ret, sql, attempt>>

\* the write branch of the validator's loop: execute, then roll back; an
\* exception of execute is swallowed (and then nothing is rolled back)
ValidateWrite(stmt, c, d) ==
    LET After(r) ==
            IF r.error = NoError
            THEN [conn |-> Rollback(r.conn, r.db).conn, db |-> Rollback(r.conn, r.db).db,
                  error |-> NoError]
            ELSE [conn |-> r.conn, db |-> r.db, error |-> r.error]
    IN  After(CursorExecute(stmt, c, d))

\* validate_sql_query: one turn of the loop over the statements
ValidateStmt ==
    /\ UNCHANGED <<passes, ui>>
    /\ pc = "validate_loop"
    /\ fn.idx <= Len(fn.statements)
    /\ LET Read(plan_error) ==
               IF plan_error # NoError
               THEN /\ valid' = [valid |-> FALSE, error |-> <<plan_error>>]
                    /\ calls' = Append(calls, Call("validate_sql_query", sql, FALSE))
                    /\ obs' = [obs EXCEPT !.rejected = @ \cup {fn.idx}]
                    /\ pc' = "validated"
                    /\ UNCHANGED <<db, conn, fn>>
               ELSE /\ fn' = [fn EXCEPT !.idx = @ + 1]
                    /\ UNCHANGED <<db, conn, valid, calls, obs, pc>>
           Write(w) ==
               /\ conn' = w.conn
               /\ db' = w.db
               /\ fn' = [fn EXCEPT !.idx = @ + 1]
               /\ obs' = IF w.error # NoError
                         THEN [obs EXCEPT !.rejected = @ \cup {fn.idx}]
                         ELSE obs
               /\ UNCHANGED <<valid, calls, pc>>
           Stmt(stmt) ==
               IF StartsWithSelect(stmt)
               THEN Read(ExplainQueryPlan(stmt, conn))
               ELSE Write(ValidateWrite(stmt, conn, db))
       IN  Stmt(fn.statements[fn.idx])
    /\ UNCHANGED <<state, chat_history, chat_ret, sql, attempt>>

\* validate_sql_query: after the loop, close and accept
ValidateReturn ==
    /\ UNCHANGED <<passes, ui>>
    /\ pc = "validate_loop"
    /\ fn.idx > Len(fn.statements)
    /\ conn' = Close(conn, db)
    /\ valid' = [valid |-> TRUE, error |-> <<>>]
    /\ calls' = Append(calls, Call("validate_sql_query", sql, TRUE))
    /\ pc' = "validated"
    /\ UNCHANGED <<db, state, chat_history, chat_ret, sql, attempt, fn, obs>>

\* the test of the validator's answer left out
RejectedNever(v) == FALSE

\* query_executor_node: "if not valid.get('valid')"
Rejected(v) == ~v.valid

\* query_executor_node, after validate_sql_query has returned
ExecutorValidated ==
    /\ UNCHANGED <<passes, ui>>
    /\ pc = "validated"
    /\ LET Retry(fixed) ==
               IF Rejected(valid) /\ attempt = 1 /\ fixed # sql
               THEN /\ sql' = fixed
                    /\ attempt' = 2
                    /\ pc' = "validate"
                    /\ UNCHANGED state
               ELSE IF Rejected(valid)
               THEN /\ state' = [state EXCEPT
                                    !.query_result =
                                        ErrorRow(<<"Invalid query: ">> \o valid.error),
                                    !.final_response = <<>>]
                    /\ pc' = "response_generator"
                    /\ UNCHANGED <<sql, attempt>>
               ELSE /\ pc' = "execute"
                    /\ UNCHANGED <<state, sql, attempt>>
       IN  Retry(ensure_aliases(sql))
    /\ UNCHANGED <<db, conn, chat_history, chat_ret, valid, fn, calls, obs>>

\* the sql_query argument of execute_sql_query: the executor stage passes its
\* local sql_query, run_sql of the page passes last_sql
ExecuteArg == IF ui.phase = "run_sql" THEN ui.last_sql ELSE sql

\* the tool calls of the pipeline run after execute_sql_query has returned
Invoked(ok) ==
    IF ui.phase = "run_sql" THEN calls
    ELSE Append(calls, Call("execute_sql_query", sql, ok))

\* execute_sql_query: connect, split; no statement at all is an error
ExecuteBegin ==
    /\ UNCHANGED <<passes, ui>>
    /\ pc = "execute"
    /\ conn' = Connect(db)
    /\ obs' = [db0 |-> db, rejected |-> {}, applied |-> <<>>]
    /\ LET statements == SplitStatements(ExecuteArg)
       IN  IF statements = <<>>
           THEN /\ fn' = [NoFn EXCEPT !.name = "execute_sql_query",
                                      !.result = ErrorRow(<<"Empty SQL">>)]
                /\ calls' = Invoked(FALSE)
                /\ pc' = "executed"
           ELSE /\ fn' = [NoFn EXCEPT !.name = "execute_sql_query",
                                      !.statements = statements, !.idx = 1]
                /\ pc' = "execute_loop"
                /\ UNCHANGED calls
    /\ UNCHANGED <<db, state, chat_history, chat_ret, sql, valid, attempt>>

\* the write branch without its commit
ExecuteWriteNoCommit(stmt, c, d) == CursorExecute(stmt, c, d)

\* the write branch of the executor's loop: execute, then commit
ExecuteWrite(stmt, c, d) ==
    LET After(r) ==
            IF r.error = NoError
            THEN [r EXCEPT !.conn = Commit(r.conn, r.db).conn, !.db = Commit(r.conn, r.db).db]
            ELSE r
    IN  After(CursorExecute(stmt, c, d))

\* execute_sql_query: one turn of the loop over the statements; an exception
\* ends the call with a single error row
ExecuteStmt ==
    /\ UNCHANGED <<passes, ui>>
    /\ pc = "execute_loop"
    /\ fn.idx <= Len(fn.statements)
    /\ LET Ran(stmt, is_select, r) ==
               /\ conn' = r.conn
               /\ db' = r.db
               /\ IF r.error # NoError
                  THEN /\ fn' = [fn EXCEPT
                                    !.result = ErrorRow(<<"Error executing query: ", r.error>>)]
                       /\ calls' = Invoked(FALSE)
                       /\ pc' = "executed"
                       /\ UNCHANGED obs
                  ELSE /\ fn' = IF is_select
                                THEN [fn EXCEPT !.idx = @ + 1, !.select_result = r.rows]
                                ELSE [fn EXCEPT !.idx = @ + 1,
                                                !.total_rows_affected =
                                                    IF r.rowcount # -1 THEN @ + r.rowcount
                                                    ELSE @,
                                                !.last_row_id = ToStr(r.lastrowid)]
                       /\ obs' = [obs EXCEPT !.applied = Append(@, stmt)]
                       /\ UNCHANGED <<calls, pc>>
           Stmt(stmt) ==
               IF StartsWithSelect(stmt)
               THEN Ran(stmt, TRUE, CursorExecute(stmt, conn, db))
               ELSE Ran(stmt, FALSE, ExecuteWrite(stmt, conn, db))
       IN  Stmt(fn.statements[fn.idx])
    /\ UNCHANGED <<state, chat_history, chat_ret, sql, valid, attempt>>

\* the return value chosen by the first statement instead of the last
ExecuteResultFirst(statements, select_result, total_rows_affected, last_row_id) ==
    IF StartsWithSelect(statements[1])
    THEN select_result
    ELSE <<[rows_affected |-> <<ToStr(total_rows_affected)>>,
            last_row_id |-> <<last_row_id>>]>>

\* the return value chosen by whether any SELECT gave rows
ExecuteResultRows(statements, select_result, total_rows_affected, last_row_id) ==
    IF select_result # <<>>
    THEN select_result
    ELSE <<[rows_affected |-> <<ToStr(total_rows_affected)>>,
            last_row_id |-> <<last_row_id>>]>>

\* the value execute_sql_query returns after the loop
ExecuteResult(statements, select_result, total_rows_affected, last_row_id) ==
    IF StartsWithSelect(statements[Len(statements)])
    THEN select_result
    ELSE <<[rows_affected |-> <<ToStr(total_rows_affected)>>,
            last_row_id |-> <<last_row_id>>]>>

\* execute_sql_query: after the loop, close and return
ExecuteReturn ==
    /\ UNCHANGED <<passes, ui>>
    /\ pc = "execute_loop"
    /\ fn.idx > Len(fn.statements)
    /\ conn' = Close(conn, db)
    /\ fn' = [fn EXCEPT !.result = ExecuteResult(fn.statements, fn.select_result,
                                                 fn.total_rows_affected, fn.last_row_id)]
    /\ calls' = Invoked(TRUE)
    /\ pc' = "executed"
    /\ UNCHANGED <<db, state, chat_history, chat_ret, sql, valid, attempt, obs>>

\* query_executor_node, after execute_sql_query has returned
ExecutorReturn ==
    /\ UNCHANGED <<passes, ui>>
    /\ pc = "executed"
    /\ ui.phase # "run_sql"
    /\ state' = [state EXCEPT !.query_result = fn.result, !.final_response = <<>>]
    /\ pc' = "response_generator"
    /\ UNCHANGED <<db, conn, chat_history, chat_ret, sql, valid, attempt, fn, calls, obs>>

\* the prefix of every error reply (a cross mark, then "Error: ")
ERROR_PREFIX == "[x] Error: "

SqlBlock(sql_query) == <<"**SQL**", NL, "[sql", NL>> \o sql_query \o <<NL, "]", NL>>

\* the reply with the error text alone, without the prefix
RenderUnprefixed(sql_query, query_result) ==
    IF query_result # <<>> /\ "error" \in DOMAIN query_result[1]
    THEN query_result[1]["error"]
    ELSE SqlBlock(sql_query)

\* response_generator_node: the reply for a query_result
Render(sql_query, query_result) ==
    IF query_result # <<>> /\ "error" \in DOMAIN query_result[1]
    THEN <<ERROR_PREFIX>> \o query_result[1]["error"]
    ELSE IF query_result # <<>> /\ "rows_affected" \in DOMAIN query_result[1]
    THEN SqlBlock(sql_query)
         \o <<"**Result**", NL, "- Rows affected: **">> \o query_result[1]["rows_affected"]
         \o <<"**", NL, "- Last inserted id: **">>
         \o (IF "last_row_id" \in DOMAIN query_result[1]
             THEN query_result[1]["last_row_id"] ELSE <<"None">>)
         \o <<"**">>
    ELSE SqlBlock(sql_query)
         \o <<"**Rows:** ", ToStr(Len(query_result)), NL, NL>>
         \o as_markdown_table(query_result, TABLE_MAX_ROWS) \o <<NL, NL>>
         \o as_row_details(query_result, DETAILS_MAX_ROWS)

ResponseGenerator ==
    /\ UNCHANGED <<passes, ui>>
    /\ pc = "response_generator"
    /\ state' = [state EXCEPT
                    !.final_response = Render(Strip(state.sql_query), state.query_result)]
    /\ pc' = "end"
    /\ UNCHANGED <<db, conn, chat_history, chat_ret, sql, valid, attempt, fn, calls, obs>>

\* chat, after graph.invoke: append the turn, return the reply
ChatReturns ==
    /\ UNCHANGED passes
    /\ ui' = [ui EXCEPT !.phase = "after_chat"]
    /\ pc = "end"
    /\ chat_history' = Append(chat_history,
                              [user |-> state.user_query, bot |-> state.final_response,
                               sql_query |-> state.sql_query])
    /\ chat_ret' = [kind |-> "reply", reply |-> state.final_response]
    /\ pc' = "idle"
    /\ UNCHANGED <<db, conn, state, sql, valid, attempt, fn, calls, obs>>

\* clear_history, called by the page's Clear Chat button, which also forgets
\* last_sql and last_rows
ClearHistory ==
    /\ UNCHANGED passes
    /\ ui.phase = "idle"
    /\ ui' = NoUi
    /\ pc = "idle"
    /\ chat_history # <<>>
    /\ chat_history' = <<>>
    /\ UNCHANGED <<db, conn, pc, state, chat_ret, sql, valid, attempt, fn, calls, obs>>

\* -------------------------------------------------------- the page (app.py)
DML_PREFIXES == {"INSERT", "UPDATE", "DELETE", "DROP", "ALTER", "CREATE", "TRUNCATE"}

\* is_dml: the text, stripped, starts with one of the prefixes (case folded)
is_dml(sql_text) ==
    LET Starts(stripped) == stripped # <<>> /\ Upper(stripped[1]) \in DML_PREFIXES
    IN  Starts(Strip(sql_text))

Handlers == {"chat_input", "example_button"}

\* the handler that called chat, after chat has returned: it takes the SQL
\* of the last turn of the history and, unless is_dml says it is a write,
\* runs it again through run_sql
UiAfterChat(handler) ==
    /\ UNCHANGED passes
    /\ pc = "idle"
    /\ ui.phase = "after_chat"
    /\ chat_history # <<>>
    /\ LET Show(last_sql) ==
               IF last_sql # <<>> /\ ~is_dml(last_sql)
               THEN /\ ui' = [ui EXCEPT !.phase = "run_sql", !.last_sql = last_sql]
                    /\ pc' = "execute"
               ELSE /\ ui' = [phase |-> "idle", last_sql |-> last_sql,
                              last_rows |-> IF handler = "chat_input" /\ last_sql # <<>>
                                            THEN <<>> ELSE ui.last_rows]
                    /\ UNCHANGED pc
       IN  Show(chat_history[Len(chat_history)].sql_query)
    /\ UNCHANGED <<db, conn, state, chat_history, chat_ret, sql, valid, attempt, fn, calls,
                   obs>>

\* run_sql has returned: the rows are kept in last_rows
UiRunSqlReturn ==
    /\ UNCHANGED passes
    /\ pc = "executed"
    /\ ui.phase = "run_sql"
    /\ ui' = [ui EXCEPT !.phase = "idle", !.last_rows = fn.result]
    /\ pc' = "idle"
    /\ UNCHANGED <<db, conn, state, chat_history, chat_ret, sql, valid, attempt, fn, calls,
                   obs>>

Next ==
    \/ \E u \in UserInputs : Chat(u)
    \/ AnalyzerNoQuestion
    \/ AnalyzerRaises
    \/ \E raw \in Completions : AnalyzerCompletes(raw)
    \/ ChatRaises
    \/ ExecutorEnter
    \/ ValidateBegin
    \/ ValidateStmt
    \/ ValidateReturn
    \/ ExecutorValidated
    \/ ExecuteBegin
    \/ ExecuteStmt
    \/ ExecuteReturn
    \/ ExecutorReturn
    \/ ResponseGenerator
    \/ ChatReturns
    \/ ClearHistory
    \/ \E handler \in Handlers : UiAfterChat(handler)
    \/ UiRunSqlReturn

Spec == Init /\ [][Next]_vars

\* ------------------------------------------------- ensure_aliases by itself
InitAlias ==
    /\ db = SeedDb
    /\ conn = NoConn
    /\ pc = "ensure_aliases"
    /\ state = NoState
    /\ chat_history = <<>>
    /\ chat_ret = NoRet
    /\ sql = <<>>
    /\ valid = NoValid
    /\ attempt = 0
    /\ fn = NoFn
    /\ calls = <<>>
    /\ obs = NoObs
    /\ passes \in {<<text>> : text \in AliasInputs}
    /\ ui = NoUi

\* one more pass of ensure_aliases over the result of the last one
AliasPass ==
    /\ pc = "ensure_aliases"
    /\ Len(passes) < 3
    /\ passes' = Append(passes, ensure_aliases(passes[Len(passes)]))
    /\ UNCHANGED <<db, conn, pc, state, chat_history, chat_ret, sql, valid, attempt, fn,
                   calls, obs, ui>>

NextAlias == AliasPass

SpecAlias == InitAlias /\ [][NextAlias]_vars

\* ---------------------------------------------------------------- properties
\* what a list of statements that all succeed does to the database, one
\* statement after the other
RECURSIVE Effects(_, _)
Effects(stmts, d) ==
    IF stmts = <<>> THEN d
    ELSE Effects(Tail(stmts), StepDb(Parse(Head(stmts)).kind, d))

ExecuteFailed == pc = "executed" /\ fn.idx <= Len(fn.statements)
ExecuteSucceeded == pc = "executed" /\ fn.idx > Len(fn.statements)
LastStatement == fn.statements[Len(fn.statements)]
IsSummary(result) ==
    Len(result) = 1 /\ DOMAIN result[1] = {"rows_affected", "last_row_id"}
IsErrorRow(result) == Len(result) = 1 /\ DOMAIN result[1] = {"error"}
AllSpace(text) == \A i \in 1..Len(text) : IsSpace(text[i])
ValidationRejected ==
    /\ calls # <<>>
    /\ calls[Len(calls)].fn = "validate_sql_query"
    /\ ~calls[Len(calls)].ok

\* C1: when validate_sql_query has returned, the committed database is what
\* it was when validate_sql_query was called.
C1_ValidateLeavesDatabase == pc = "validated" => db = obs.db0

\* C2: when the engine has rejected a statement of the sequence, read or
\* write, validate_sql_query returns reject with an error message; it accepts
\* only if the engine accepted every statement.
C2_ValidateRejectsWhatEngineRejects ==
    (pc = "validated" /\ obs.rejected # {}) => (~valid.valid /\ valid.error # <<>>)

\* C3: execute_sql_query runs the statements in order and leaves nothing
\* uncommitted between two statements; when statement k fails, the committed
\* database holds the effects of the statements before k and the result is a
\* single row with the error key alone.
C3_ExecuteCommitsEachWrite ==
    /\ pc = "execute_loop" =>
          /\ obs.applied = SubSeq(fn.statements, 1, fn.idx - 1)
          /\ ~conn.in_txn
          /\ db = Effects(obs.applied, obs.db0)
    /\ ExecuteFailed =>
          /\ db = Effects(SubSeq(fn.statements, 1, fn.idx - 1), obs.db0)
          /\ IsErrorRow(fn.result)

\* C3 witness: statement k > 1 has failed after a write that changed the database.
C3_Witness == ExecuteFailed /\ fn.idx >= 2 /\ db # obs.db0

\* C4: when every statement succeeded and the last one is a SELECT, the
\* result is the rows of that SELECT on the database as the statements
\* before it left it.
C4_ResultIsFinalSelect ==
    (ExecuteSucceeded /\ StartsWithSelect(LastStatement)) =>
        fn.result = FetchAll(Parse(LastStatement), Effects(fn.statements, obs.db0))

\* C4 witness: a SELECT has run last, after a statement that changed the database.
C4_Witness ==
    /\ ExecuteSucceeded /\ StartsWithSelect(LastStatement)
    /\ Len(fn.statements) >= 2 /\ db # obs.db0

\* C5 as stated: a successful sequence that contains a write returns the
\* mutation summary alone.
C5_AnyWriteGivesSummary ==
    (ExecuteSucceeded /\ \E i \in 1..Len(fn.statements) : ~StartsWithSelect(fn.statements[i]))
        => IsSummary(fn.result)

\* C5 amended: a successful sequence whose last statement is a write returns
\* one mapping with the keys rows_affected and last_row_id, and no row.
C5_FinalWriteGivesSummary ==
    (ExecuteSucceeded /\ ~StartsWithSelect(LastStatement)) => IsSummary(fn.result)

\* C5 witness: a write has run last, after a SELECT that gave rows.
C5_Witness ==
    ExecuteSucceeded /\ ~StartsWithSelect(LastStatement) /\ fn.select_result # <<>>

\* C6 as stated: when validation rejected the SQL, the reply chat returns
\* begins with "Invalid query:".
C6_ReplyBeginsInvalidQuery ==
    (chat_ret.kind = "reply" /\ ValidationRejected) =>
        (chat_ret.reply # <<>> /\ Head(chat_ret.reply) = "Invalid query: ")

\* C6 amended: when validation rejected the SQL, the reply chat returns is
\* the error prefix followed by a text that begins with "Invalid query:".
C6_ReplyIsPrefixedInvalidQuery ==
    (chat_ret.kind = "reply" /\ ValidationRejected) =>
        (Len(chat_ret.reply) >= 2
         /\ SubSeq(chat_ret.reply, 1, 2) = <<ERROR_PREFIX, "Invalid query: ">>)

\* C6 witness: chat has returned after a rejection by the engine.
C6_Witness ==
    chat_ret.kind = "reply" /\ ValidationRejected /\ valid.error # <<"Empty SQL">>

\* C7: with an empty or whitespace-only SQL string the executor stage gives
\* a row with the error key and calls no tool: no connection is opened and
\* the database is not touched.
C7_EmptySqlMakesNoEngineCall ==
    [][(pc = "query_executor" /\ AllSpace(state.sql_query)) =>
          /\ pc' = "response_generator"
          /\ IsErrorRow(state'.query_result)
          /\ calls' = <<>>
          /\ conn' = conn
          /\ db' = db]_vars

\* C7 witness: the executor stage is over for a question whose completion
\* held no SQL.
C7_Witness ==
    /\ pc = "response_generator" /\ state.user_query # ""
    /\ AllSpace(state.sql_query) /\ calls = <<>>

\* C8: no exception leaves chat: every call returns a reply.
C8_ChatNeverRaises == chat_ret.kind # "exception"

\* C9: with no user input the reply chat returns is the analyzer's static
\* message.
C9_EmptyInputGetsStaticMessage ==
    (chat_ret.kind = "reply" /\ state.user_query = "") =>
        chat_ret.reply = <<PLEASE_PROVIDE>>

\* the alias ensure_aliases gives a call of this function
AliasOf(call) == IF Upper(call[1]) = "COUNT" THEN "count" ELSE "min"

\* C10: ensure_aliases gives an aggregate call without an alias exactly one
\* alias, leaves a call that carries an AS alias as it is, and a second pass
\* changes nothing.
C10_EnsureAliasesIdempotent ==
    /\ Len(passes) = 3 => passes[3] = passes[2]
    /\ Len(passes) >= 2 =>
          \A call \in AliasCalls :
              /\ passes[1] = AliasInput(call, <<>>) =>
                    passes[2] = AliasInput(call, <<WS, "AS", WS, AliasOf(call)>>)
              /\ \A a \in {"n", "\"n\""} :
                    passes[1] = AliasInput(call, <<WS, "AS", WS, a>>) =>
                        passes[2] = passes[1]

\* to the engine a result column without an alias is named by the text of
\* its expression; with an alias it is named by the alias
HasAlias(stmt) ==
    Parse(stmt).kind = "select_count" => Parse(stmt).col \notin {"COUNT(*)", "count(*)"}

\* C11: after the analyzer stage every SELECT statement of the generated
\* sequence, at whatever position, has an alias on its aggregate call.
C11_EverySelectIsAliased ==
    (pc = "query_executor" /\ state.user_query # "") =>
        \A stmt \in {SplitStatements(state.sql_query)[i] :
                        i \in 1..Len(SplitStatements(state.sql_query))} :
            StartsWithSelect(stmt) => HasAlias(stmt)

\* C12: the page runs through run_sql only SQL that holds no write
\* statement, so that no write statement of a turn is run a second time.
C12_UiRunsNoWrite ==
    ui.phase = "run_sql" =>
        \A i \in 1..Len(obs.applied) : StartsWithSelect(obs.applied[i])

\* C13: when validate_sql_query or execute_sql_query has returned, with
\* success, with the empty-SQL answer or with an error of a statement, the
\* connection it opened is closed.
C13_ConnectionClosedOnReturn == pc \in {"validated", "executed"} => ~conn.open

ValidateCalls == {i \in 1..Len(calls) : calls[i].fn = "validate_sql_query"}
ExecuteCalls == {i \in 1..Len(calls) : calls[i].fn = "execute_sql_query"}

\* C14: in a run of the executor stage, execute_sql_query is called only
\* right after validate_sql_query has accepted the very same string;
\* validate_sql_query is called at most twice, the second time only on what
\* ensure_aliases made of a rejected string when that differs from it; and
\* the step the stage takes after the last rejection calls nothing and
\* leaves the database as it is.
C14_ValidatedBeforeExecuted ==
    /\ [](/\ \A i \in ExecuteCalls :
                /\ i = Len(calls) /\ i > 1
                /\ calls[i - 1] = Call("validate_sql_query", calls[i].sql, TRUE)
          /\ Cardinality(ValidateCalls) <= 2
          /\ \A i \in ValidateCalls :
                i > 1 => /\ calls[i - 1].fn = "validate_sql_query"
                         /\ ~calls[i - 1].ok
                         /\ calls[i].sql = ensure_aliases(calls[i - 1].sql)
                         /\ calls[i].sql # calls[i - 1].sql)
    /\ [][(pc = "validated" /\ ~valid.valid /\ pc' # "validate") =>
             (pc' = "response_generator" /\ calls' = calls /\ db' = db
              /\ IsErrorRow(state'.query_result))]_vars

\* C14 witness: the stage has validated twice, the second time the string
\* ensure_aliases made of the first, and has ended without an execution.
C14_Witness ==
    /\ pc = "response_generator"
    /\ Len(calls) = 2
    /\ ValidateCalls = {1, 2}
    /\ calls[2].sql # calls[1].sql

\* the form of a reply: the error form begins with the error prefix, the
\* mutation summary holds the Result heading, the table form the row count
FormOf(reply) ==
    IF reply # <<>> /\ Head(reply) = ERROR_PREFIX THEN "error"
    ELSE IF \E i \in 1..Len(reply) : reply[i] = "**Result**" THEN "summary"
    ELSE IF \E i \in 1..Len(reply) : reply[i] = "**Rows:** " THEN "table"
    ELSE "none"

\* the outcome of the run: nothing was run or the last tool call failed; or
\* all statements ran and the last one is a SELECT, or is a write
RunOutcome ==
    LET Last(statements) ==
            IF StartsWithSelect(statements[Len(statements)]) THEN "select" ELSE "write"
    IN  IF calls = <<>> \/ ~calls[Len(calls)].ok THEN "failed"
        ELSE Last(SplitStatements(calls[Len(calls)].sql))

\* C15: the form of the rendered reply follows from the outcome of the run:
\* the table form when all statements succeeded and the last one is a SELECT,
\* whatever the names of its columns; the error form only when the run
\* failed; the mutation summary only when the last statement was a write.
C15_FormFollowsOutcome ==
    pc = "end" =>
        FormOf(state.final_response) =
            CASE RunOutcome = "failed" -> "error"
              [] RunOutcome = "select" -> "table"
              [] OTHER -> "summary"

====
